---- MODULE Spec2Model ----
(***************************************************************************)
(* Model of src/bot.py: the Fetcher (get_all_batches, get_batch_details),  *)
(* the Extractor (get_video_link, extract_links) and the chat handlers     *)
(* (list_batches, button_handler, extract_and_send_batch, error_handler).  *)
(*                                                                         *)
(* Python values are represented as follows.                               *)
(*   dict      a function from string keys to values (a TLA+ record);      *)
(*             the empty dict {} is the function with the empty domain     *)
(*   list      a sequence                                                  *)
(*   str       a TLA+ string where only equality matters; a sequence of    *)
(*             tokens where the code slices or replaces inside the string  *)
(*             (callback data, batch ids, batch names, exception texts)    *)
(*   None      PyNone where a string is expected, NoneVal where a dict is  *)
(*   a JSON string found where a dict is expected: [pyStr |-> ...]         *)
(***************************************************************************)
EXTENDS Integers, Sequences, FiniteSets, TLC

\* ------------------------------------------------------------------------
\* Bounds of the model

MaxLinks == 3
MaxTopics == 2
MaxLectures == 2
MaxGroups == 1
MaxPdfs == 2
MaxErrLen == 101

\* ------------------------------------------------------------------------
\* Python helpers

PyNone == "<None>"
NoneVal == [pyNone |-> TRUE]
EmptyDict == [k \in {} |-> 0]

\* dict.get(key, default)
Get(obj, key, default) == IF key \in DOMAIN obj THEN obj[key] ELSE default

\* truth value of a str (or None) in a condition
StrTruthy(s) == s # "" /\ s # PyNone

\* truth value of a dict (or None) in a condition
DictTruthy(d) == DOMAIN d # {} /\ "pyNone" \notin DOMAIN d

\* a value that is a str where the code expects a dict
IsStr(v) == "pyStr" \in DOMAIN v

Min(a, b) == IF a < b THEN a ELSE b

\* s[:n]
Take(s, n) == SubSeq(s, 1, Min(n, Len(s)))

\* a text of n characters; character i is represented by i
MkText(n) == [i \in 1..n |-> i]

\* the outcome of a call: a returned value or a raised exception
Return(v) == [raised |-> FALSE, text |-> <<>>, ret |-> v]
Raise(t, v) == [raised |-> TRUE, text |-> t, ret |-> v]

\* str(e) of AttributeError("'str' object has no attribute 'get'")
AttributeErrorText == MkText(40)

\* ------------------------------------------------------------------------
\* Fetcher

\* What the server answers to one GET: requests.get raises unless transport
\* is "ok", raise_for_status raises on a 4xx/5xx status, response.json()
\* raises unless the body parses.
IsFailure(resp) == resp.transport # "ok" \/ resp.status >= 400 \/ ~resp.parsable

\* a second attempt after a failed first one
FetchRetry(responses, fallback) ==
    IF IsFailure(responses[1])
    THEN [raised |-> FALSE, text |-> <<>>,
          ret |-> IF IsFailure(responses[2]) THEN fallback ELSE responses[2].body,
          gets |-> 2]
    ELSE [raised |-> FALSE, text |-> <<>>, ret |-> responses[1].body, gets |-> 1]

\* try: requests.get; raise_for_status; return json()  except: return fallback.
\* responses[i] is what the i-th GET would receive; gets counts the GETs made.
Fetch(responses, fallback) ==
    IF responses[1].transport # "ok"
    THEN [raised |-> FALSE, text |-> <<>>, ret |-> fallback, gets |-> 1]
    ELSE IF responses[1].status >= 400
    THEN [raised |-> FALSE, text |-> <<>>, ret |-> fallback, gets |-> 1]
    ELSE IF ~responses[1].parsable
    THEN [raised |-> FALSE, text |-> <<>>, ret |-> fallback, gets |-> 1]
    ELSE [raised |-> FALSE, text |-> <<>>, ret |-> responses[1].body, gets |-> 1]

get_all_batches(responses) == Fetch(responses, <<>>)

get_batch_details(responses) == Fetch(responses, NoneVal)

\* ------------------------------------------------------------------------
\* Extractor

QualityOrder == <<"720p", "480p", "360p", "240p">>

\* for link in video_links: if link.get('quality') == quality: return link.get('url')
RECURSIVE ScanLinks(_, _, _)
ScanLinks(video_links, quality, i) ==
    IF i > Len(video_links) THEN [found |-> FALSE, url |-> ""]
    ELSE IF Get(video_links[i], "quality", PyNone) = quality
         THEN [found |-> TRUE, url |-> Get(video_links[i], "url", PyNone)]
         ELSE ScanLinks(video_links, quality, i + 1)

\* for quality in ['720p', '480p', '360p', '240p']: ... ; return ""
RECURSIVE ScanQualities(_, _)
ScanQualities(video_links, q) ==
    IF q > Len(QualityOrder) THEN ""
    ELSE LET r == ScanLinks(video_links, QualityOrder[q], 1)
         IN  IF r.found THEN r.url ELSE ScanQualities(video_links, q + 1)

\* the loops nested the other way round: the first link of a listed quality
RECURSIVE FirstListedLink(_, _)
FirstListedLink(video_links, i) ==
    IF i > Len(video_links) THEN ""
    ELSE IF \E q \in 1..Len(QualityOrder) :
                Get(video_links[i], "quality", PyNone) = QualityOrder[q]
         THEN Get(video_links[i], "url", PyNone)
         ELSE FirstListedLink(video_links, i + 1)

get_video_link_list_order(video_links) == FirstListedLink(video_links, 1)

get_video_link(video_links) == ScanQualities(video_links, 1)

\* the video record of one lecture, appended when a url was selected
LectureVideoAlways(all_links, topic_name, lecture) ==
    LET video_url == get_video_link(Get(lecture, "videoLinks", <<>>))
    IN  Append(all_links, [type |-> "video", topic |-> topic_name,
                           title |-> Get(lecture, "videoTitle", ""),
                           url |-> video_url])

LectureVideo(all_links, topic_name, lecture) ==
    LET video_url == get_video_link(Get(lecture, "videoLinks", <<>>))
    IN  IF StrTruthy(video_url)
        THEN Append(all_links, [type |-> "video", topic |-> topic_name,
                                title |-> Get(lecture, "videoTitle", ""),
                                url |-> video_url])
        ELSE all_links

\* for pdf in lecture.get("pdfLinks", []): all_links.append({...})
RECURSIVE LecturePdfs(_, _, _, _)
LecturePdfs(all_links, topic_name, pdfLinks, i) ==
    IF i > Len(pdfLinks) THEN all_links
    ELSE LecturePdfs(Append(all_links, [type |-> "pdf", topic |-> topic_name,
                                        title |-> Get(pdfLinks[i], "name", ""),
                                        url |-> Get(pdfLinks[i], "url", "")]),
                     topic_name, pdfLinks, i + 1)

\* for lecture in topic.get("lectures", []): video record, then pdf records
RECURSIVE TopicLectures(_, _, _, _)
TopicLectures(all_links, topic_name, lectures, i) ==
    IF i > Len(lectures) THEN all_links
    ELSE TopicLectures(
             LecturePdfs(LectureVideo(all_links, topic_name, lectures[i]),
                         topic_name, Get(lectures[i], "pdfLinks", <<>>), 1),
             topic_name, lectures, i + 1)

\* for topic in batch_details.get("topics", []): ...
\* topic.get raises AttributeError when the element is not a dict
RECURSIVE TopicsLoop(_, _, _)
TopicsLoop(all_links, topics, i) ==
    IF i > Len(topics) THEN Return(all_links)
    ELSE IF IsStr(topics[i]) THEN Raise(AttributeErrorText, all_links)
    ELSE TopicsLoop(TopicLectures(all_links, Get(topics[i], "topicName", ""),
                                  Get(topics[i], "lectures", <<>>), 1),
                    topics, i + 1)

\* for pdf in material.get("pdfs", []): all_links.append({...})
RECURSIVE MaterialPdfs(_, _, _, _)
MaterialPdfs(all_links, material, pdfs, i) ==
    IF i > Len(pdfs) THEN all_links
    ELSE MaterialPdfs(Append(all_links,
                             [type |-> "study_pdf",
                              topic |-> Get(material, "topic", "Study Material"),
                              title |-> Get(pdfs[i], "title", ""),
                              url |-> Get(pdfs[i], "link", "")]),
                      material, pdfs, i + 1)

\* for material in batch_details.get("studyMaterial", []): ...
RECURSIVE MaterialLoop(_, _, _)
MaterialLoop(all_links, studyMaterial, i) ==
    IF i > Len(studyMaterial) THEN all_links
    ELSE MaterialLoop(MaterialPdfs(all_links, studyMaterial[i],
                                   Get(studyMaterial[i], "pdfs", <<>>), 1),
                      studyMaterial, i + 1)

\* the two loops in the other order: study material first
extract_links_study_first(batch_details) ==
    LET m == MaterialLoop(<<>>, Get(batch_details, "studyMaterial", <<>>), 1)
        t == TopicsLoop(m, Get(batch_details, "topics", <<>>), 1)
    IN  t

extract_links(batch_details) ==
    LET t == TopicsLoop(<<>>, Get(batch_details, "topics", <<>>), 1)
    IN  IF t.raised THEN t
        ELSE Return(MaterialLoop(t.ret, Get(batch_details, "studyMaterial", <<>>), 1))

\* ------------------------------------------------------------------------
\* Inputs

Qualities == {"720p", "480p", "360p", "240p", "1080p"}
Urls == {"", "A", "B"}
VideoLinks == [quality : Qualities, url : Urls]

SeqsUpTo(S, n) == UNION {[1..k -> S] : k \in 0..n}

VideoLinkLists == SeqsUpTo(VideoLinks, MaxLinks)

\* a lecture with three qualities out of preference order and two pdfs,
\* one of them without url
LecA == [videoTitle |-> "v1",
         videoLinks |-> <<[quality |-> "480p", url |-> "A"],
                          [quality |-> "720p", url |-> "B"],
                          [quality |-> "240p", url |-> "C"]>>,
         pdfLinks |-> <<[name |-> "n1", url |-> "p1"], [name |-> "n2", url |-> ""]>>]
\* a lecture whose only video link has an unlisted quality
LecB == [videoTitle |-> "v2",
         videoLinks |-> <<[quality |-> "1080p", url |-> "X"]>>,
         pdfLinks |-> <<[name |-> "n1", url |-> "p1"]>>]
\* a lecture whose best link has an empty url; no title, no pdfLinks key
LecC == [videoLinks |-> <<[quality |-> "720p", url |-> ""],
                          [quality |-> "480p", url |-> "A"]>>]
Lectures == {LecA, LecB, LecC}

Topics == {[topicName |-> "T1", lectures |-> ls] : ls \in SeqsUpTo(Lectures, MaxLectures)}
          \cup {[topicName |-> "T2"]}

StudyPdfs == {[title |-> "s1", link |-> "q1"], [title |-> "s2", link |-> ""]}
Groups == {[topic |-> "M1", pdfs |-> ps] : ps \in SeqsUpTo(StudyPdfs, MaxPdfs)}
          \cup {[pdfs |-> ps] : ps \in SeqsUpTo(StudyPdfs, MaxPdfs)}

Details == {[topics |-> ts, studyMaterial |-> gs] :
               ts \in SeqsUpTo(Topics, MaxTopics), gs \in SeqsUpTo(Groups, MaxGroups)}
           \cup {EmptyDict}

\* batch ids and callback data are token sequences: "batch_" is one token
Batch1 == [batchId |-> <<"1">>, batchName |-> <<"My", " ", "Batch", "/", "1">>,
           batchThumb |-> "img1", discountPrice |-> "99"]
Batch2 == [batchId |-> <<"batch_", "1">>, batchName |-> <<"B2">>,
           batchThumb |-> "img2"]
BatchLists == {<<>>, <<Batch1>>, <<Batch2>>, <<Batch2, Batch1>>}

\* a batch detail with video, pdf and study_pdf records, some without url
DocRich == [topics |-> <<[topicName |-> "T1", lectures |-> <<LecA, LecB>>]>>,
            studyMaterial |-> <<[pdfs |-> <<[title |-> "s2", link |-> ""],
                                            [title |-> "s1", link |-> "q1"]>>]>>]
\* records, none with a url
DocNoUrl == [topics |-> <<[topicName |-> "T1",
                           lectures |-> <<[pdfLinks |-> <<[name |-> "n2"]>>]>>]>>]
\* a non-empty document without any record
DocNoRecords == [topics |-> <<[topicName |-> "T1", lectures |-> <<LecC>>]>>]
\* "topics": ["oops"]
DocMalformed == [topics |-> <<[pyStr |-> "oops"]>>]
DetailBodies == {DocRich, DocNoUrl, DocNoRecords, EmptyDict, DocMalformed}

Responses(bodies) == [transport : {"ok", "timeout", "connection_error"},
                      status : {200, 404, 500},
                      parsable : BOOLEAN,
                      body : bodies]

\* ------------------------------------------------------------------------
\* State

\* the function under test, its argument, and NotCalled or the value returned
VARIABLES fn, arg, out

\* Per chat (user): the position of the handler coroutine serving the chat's
\* current update, the inline keyboard last sent to the chat, the locals of
\* button_handler / extract_and_send_batch, the exception being handled or
\* propagating, and the observable effects of the current handler run.
VARIABLES pc, shown, data, batch_id, batches, batch_info, details, links, exc, trace

vars == <<fn, arg, out, pc, shown, data, batch_id, batches, batch_info, details,
          links, exc, trace>>

botVars == <<pc, shown, data, batch_id, batches, batch_info, details, links, exc, trace>>

Users == {"u1", "u2"}

\* no handler running, nothing sent yet
BotIdle ==
    /\ pc = [u \in Users |-> "idle"]
    /\ shown = [u \in Users |-> <<>>]
    /\ data = [u \in Users |-> <<>>]
    /\ batch_id = [u \in Users |-> <<>>]
    /\ batches = [u \in Users |-> <<>>]
    /\ batch_info = [u \in Users |-> NoneVal]
    /\ details = [u \in Users |-> NoneVal]
    /\ links = [u \in Users |-> <<>>]
    /\ exc = [u \in Users |-> <<>>]
    /\ trace = [u \in Users |-> <<>>]

NotCalled == [called |-> FALSE]
Called(v) == [called |-> TRUE, val |-> v]

\* ------------------------------------------------------------------------
\* The functions of the Fetcher and the Extractor, applied to bounded inputs

InitPure ==
    /\ BotIdle
    /\ out = NotCalled
    /\ \/ fn = "get_video_link" /\ arg \in VideoLinkLists
       \/ fn = "extract_links" /\ arg \in Details
       \/ fn = "get_all_batches" /\ arg \in [1..2 -> Responses(BatchLists)]
       \/ fn = "get_batch_details" /\ arg \in [1..2 -> Responses({DocRich, EmptyDict})]

CallGetVideoLink ==
    /\ fn = "get_video_link" /\ ~out.called
    /\ out' = Called(get_video_link(arg))
    /\ UNCHANGED <<fn, arg>>
    /\ UNCHANGED botVars

CallExtractLinks ==
    /\ fn = "extract_links" /\ ~out.called
    /\ out' = Called(extract_links(arg))
    /\ UNCHANGED <<fn, arg>>
    /\ UNCHANGED botVars

CallGetAllBatches ==
    /\ fn = "get_all_batches" /\ ~out.called
    /\ out' = Called(get_all_batches(arg))
    /\ UNCHANGED <<fn, arg>>
    /\ UNCHANGED botVars

CallGetBatchDetails ==
    /\ fn = "get_batch_details" /\ ~out.called
    /\ out' = Called(get_batch_details(arg))
    /\ UNCHANGED <<fn, arg>>
    /\ UNCHANGED botVars

NextPure ==
    \/ CallGetVideoLink
    \/ CallExtractLinks
    \/ CallGetAllBatches
    \/ CallGetBatchDetails

SpecPure == InitPure /\ [][NextPure]_vars

\* ------------------------------------------------------------------------
\* Properties of the Fetcher and the Extractor (SpecPure)

IsListed(link) == \E q \in 1..Len(QualityOrder) : link.quality = QualityOrder[q]
Rank(link) == CHOOSE q \in 1..Len(QualityOrder) : link.quality = QualityOrder[q]
ListedOnly(video_links) == SelectSeq(video_links, IsListed)

\* C1: get_video_link returns the url of a link whose quality is the
\* highest-ranked one present in [720p, 480p, 360p, 240p], wherever that link
\* stands in the list; links of an unlisted quality do not influence the
\* result; without a link of a listed quality the result is "".
C1_QualityPriority ==
    (fn = "get_video_link" /\ out.called) =>
        /\ IF \A i \in 1..Len(arg) : ~IsListed(arg[i])
           THEN out.val = ""
           ELSE \E i \in 1..Len(arg) :
                   /\ IsListed(arg[i])
                   /\ \A j \in 1..Len(arg) : IsListed(arg[j]) => Rank(arg[i]) <= Rank(arg[j])
                   /\ out.val = arg[i].url
        /\ out.val = get_video_link(ListedOnly(arg))

\* the selected link is not the first of the list, and an unlisted quality is present
C1_Witness ==
    /\ fn = "get_video_link" /\ out.called
    /\ Len(arg) = 3
    /\ arg[1].quality = "480p" /\ arg[2].quality = "1080p" /\ arg[3].quality = "720p"
    /\ arg[1].url = "A" /\ arg[3].url = "B"
    /\ out.val = "B"

RECURSIVE Concat(_)
Concat(ss) == IF Len(ss) = 0 THEN <<>> ELSE Head(ss) \o Concat(Tail(ss))

ExpVideo(topic, lecture) ==
    IF StrTruthy(get_video_link(Get(lecture, "videoLinks", <<>>)))
    THEN <<[type |-> "video", topic |-> Get(topic, "topicName", ""),
            title |-> Get(lecture, "videoTitle", ""),
            url |-> get_video_link(Get(lecture, "videoLinks", <<>>))]>>
    ELSE <<>>
ExpPdfs(topic, lecture) ==
    [k \in 1..Len(Get(lecture, "pdfLinks", <<>>)) |->
        [type |-> "pdf", topic |-> Get(topic, "topicName", ""),
         title |-> Get(lecture.pdfLinks[k], "name", ""),
         url |-> Get(lecture.pdfLinks[k], "url", "")]]
ExpTopic(topic) ==
    Concat([l \in 1..Len(Get(topic, "lectures", <<>>)) |->
               ExpVideo(topic, topic.lectures[l]) \o ExpPdfs(topic, topic.lectures[l])])
ExpGroup(material) ==
    [k \in 1..Len(Get(material, "pdfs", <<>>)) |->
        [type |-> "study_pdf", topic |-> Get(material, "topic", "Study Material"),
         title |-> Get(material.pdfs[k], "title", ""),
         url |-> Get(material.pdfs[k], "link", "")]]
ExpTopicPart(d) ==
    Concat([t \in 1..Len(Get(d, "topics", <<>>)) |-> ExpTopic(d.topics[t])])
ExpStudyPart(d) ==
    Concat([g \in 1..Len(Get(d, "studyMaterial", <<>>)) |-> ExpGroup(d.studyMaterial[g])])

CountOf(s, kind) == Cardinality({i \in 1..Len(s) : s[i].type = kind})

LectureIdx(d) ==
    UNION {{<<t, l>> : l \in 1..Len(Get(d.topics[t], "lectures", <<>>))} :
              t \in 1..Len(Get(d, "topics", <<>>))}
PdfIdx(d) ==
    UNION {{<<p[1], p[2], k>> :
               k \in 1..Len(Get(d.topics[p[1]].lectures[p[2]], "pdfLinks", <<>>))} :
              p \in LectureIdx(d)}
StudyIdx(d) ==
    UNION {{<<g, k>> : k \in 1..Len(Get(d.studyMaterial[g], "pdfs", <<>>))} :
              g \in 1..Len(Get(d, "studyMaterial", <<>>))}
SelectedUrl(d, p) == get_video_link(Get(d.topics[p[1]].lectures[p[2]], "videoLinks", <<>>))

\* C3: extract_links emits one video record for each lecture for which a
\* (non-empty) url was selected and none for the others, so every video
\* record has a non-empty url; it emits one pdf record per pdfLinks entry
\* and one study_pdf record per pdfs entry, also for entries without url.
C3_RecordCounts ==
    (fn = "extract_links" /\ out.called) =>
        /\ CountOf(out.val.ret, "video")
             = Cardinality({p \in LectureIdx(arg) : StrTruthy(SelectedUrl(arg, p))})
        /\ \A i \in 1..Len(out.val.ret) :
              out.val.ret[i].type = "video" => StrTruthy(out.val.ret[i].url)
        /\ CountOf(out.val.ret, "pdf") = Cardinality(PdfIdx(arg))
        /\ CountOf(out.val.ret, "study_pdf") = Cardinality(StudyIdx(arg))
        /\ Len(out.val.ret) = CountOf(out.val.ret, "video") + CountOf(out.val.ret, "pdf")
                               + CountOf(out.val.ret, "study_pdf")

\* lectures without a selected url (unlisted quality; empty url of the best
\* link) next to one with a video, and records with an empty url
C3_Witness ==
    /\ fn = "extract_links" /\ out.called
    /\ DOMAIN arg # {}
    /\ Len(arg.topics) = 2 /\ Len(arg.studyMaterial) = 1
    /\ "lectures" \in DOMAIN arg.topics[1] /\ "lectures" \in DOMAIN arg.topics[2]
    /\ arg.topics[1].lectures = <<LecC, LecB>> /\ arg.topics[2].lectures = <<LecA>>
    /\ CountOf(out.val.ret, "video") = 1
    /\ CountOf(out.val.ret, "pdf") = 3
    /\ \E i \in 1..Len(out.val.ret) : out.val.ret[i].type = "pdf" /\ out.val.ret[i].url = ""
    /\ \E i \in 1..Len(out.val.ret) : out.val.ret[i].type = "study_pdf" /\ out.val.ret[i].url = ""

Fallback == IF fn = "get_all_batches" THEN <<>> ELSE NoneVal

\* C5: the Fetcher never raises and makes a single attempt: on a transport
\* failure, a timeout, an error status or an unparsable body get_all_batches
\* returns the empty sequence and get_batch_details returns None, after
\* exactly one GET.
C5_FetcherFailSoft ==
    (fn \in {"get_all_batches", "get_batch_details"} /\ out.called) =>
        /\ ~out.val.raised
        /\ out.val.gets = 1
        /\ IsFailure(arg[1]) => out.val.ret = Fallback
        /\ ~IsFailure(arg[1]) => out.val.ret = arg[1].body

\* a first GET that times out while a second one would have succeeded
C5_Witness ==
    /\ fn = "get_batch_details" /\ out.called
    /\ arg[1].transport = "timeout"
    /\ ~IsFailure(arg[2]) /\ arg[2].body = DocRich
    /\ out.val.ret = NoneVal /\ out.val.gets = 1

\* ------------------------------------------------------------------------
\* Chat handlers

KeyboardLimit == 30
ButtonNameLimit == 25
FileNameLimit == 50
ErrorTextLimit == 100

\* the server's answer to one GET, as seen by the handlers
OkResponse(body) == [transport |-> "ok", status |-> 200, parsable |-> TRUE, body |-> body]
\* (every kind of failure is told apart in SpecPure; the handlers cannot)
FailedResponses(body) ==
    {[transport |-> "timeout", status |-> 200, parsable |-> TRUE, body |-> body]}
ListResponses == {OkResponse(b) : b \in BatchLists} \cup FailedResponses(<<>>)
DetailResponses == {OkResponse(d) : d \in DetailBodies} \cup FailedResponses(EmptyDict)

\* the outcome of one awaited Telegram call: done, or an exception with a text
\* (the text of a Telegram error is longer than what the bot shows of it)
TelegramErrorText == MkText(MaxErrLen)
TgOutcomes == {[ok |-> TRUE, text |-> <<>>], [ok |-> FALSE, text |-> TelegramErrorText]}

Message(kind, detail) == [msg |-> kind, detail |-> detail]

\* callback_data=f"batch_{batch_id}"
CallbackData(id) == <<"batch_">> \o id
CancelData == <<"cancel">>

\* data.startswith("batch_")
StartsWithBatch(d) == Len(d) >= 1 /\ d[1] = "batch_"

IsNotBatchToken(t) == t # "batch_"

\* data.replace("batch_", ""): every occurrence is removed
ReplaceBatch(d) == SelectSeq(d, IsNotBatchToken)

\* the locals and effects of the handler run of chat u
Cur(u) == [pc |-> pc[u], shown |-> shown[u], data |-> data[u], batch_id |-> batch_id[u],
           batches |-> batches[u], batch_info |-> batch_info[u], details |-> details[u],
           links |-> links[u], exc |-> exc[u], trace |-> trace[u]]

Apply(u, n) ==
    /\ pc' = [pc EXCEPT ![u] = n.pc]
    /\ shown' = [shown EXCEPT ![u] = n.shown]
    /\ data' = [data EXCEPT ![u] = n.data]
    /\ batch_id' = [batch_id EXCEPT ![u] = n.batch_id]
    /\ batches' = [batches EXCEPT ![u] = n.batches]
    /\ batch_info' = [batch_info EXCEPT ![u] = n.batch_info]
    /\ details' = [details EXCEPT ![u] = n.details]
    /\ links' = [links EXCEPT ![u] = n.links]
    /\ exc' = [exc EXCEPT ![u] = n.exc]
    /\ trace' = [trace EXCEPT ![u] = n.trace]
    /\ UNCHANGED <<fn, arg, out>>

\* a new update for chat u starts a handler with fresh locals
Fresh(u, handler) ==
    [pc |-> "idle", shown |-> shown[u], data |-> <<>>, batch_id |-> <<>>, batches |-> <<>>,
     batch_info |-> NoneVal, details |-> NoneVal, links |-> <<>>, exc |-> <<>>,
     trace |-> <<[op |-> "update", handler |-> handler]>>]

\* the urls of the two endpoints, as token sequences
BatchesUrl == <<"/batches">>
ExtractUrl(id) == <<"/extract/batch_id=">> \o id

LogGet(c, url, resp) ==
    [c EXCEPT !.trace = Append(@, [op |-> "GET", url |-> url, ok |-> ~IsFailure(resp),
                                   body |-> resp.body])]

\* an awaited call outside a try block: it completes and the coroutine goes on
\* at next_pc, or its exception leaves the handler
AwaitOutside(c, entry, o, next_pc) ==
    IF o.ok
    THEN [c EXCEPT !.trace = Append(@, entry @@ [ok |-> TRUE]), !.pc = next_pc]
    ELSE [c EXCEPT !.trace = Append(@, entry @@ [ok |-> FALSE]), !.pc = "raised",
                   !.exc = o.text]

\* an awaited call whose exception no except clause catches
AwaitUncaught(c, entry, o, next_pc) == AwaitOutside(c, entry, o, next_pc)

\* an awaited call inside the try block of extract_and_send_batch: its
\* exception is caught by "except Exception as e"
AwaitInTry(c, entry, o, next_pc) ==
    IF o.ok
    THEN [c EXCEPT !.trace = Append(@, entry @@ [ok |-> TRUE]), !.pc = next_pc]
    ELSE [c EXCEPT !.trace = Append(@, entry @@ [ok |-> FALSE]), !.pc = "except",
                   !.exc = o.text]

EditEntry(kind, detail) == [op |-> "edit", text |-> Message(kind, detail)]

\* batch.get('batchName', 'Unknown Batch')[:25] - price
ButtonText(batch) ==
    Take(Get(batch, "batchName", <<"Unknown Batch">>), ButtonNameLimit)
        \o <<" - ", Get(batch, "discountPrice", "N/A")>>

\* one button per batch of batches[:30], then the cancel button
Keyboard(bs) ==
    [i \in 1..Min(KeyboardLimit, Len(bs)) |->
        [text |-> ButtonText(bs[i]),
         callback_data |-> CallbackData(Get(bs[i], "batchId", <<>>))]]
    \o << [text |-> <<"Cancel">>, callback_data |-> CancelData] >>

\* list_batches: the /batches command
ListBatches(u) ==
    /\ pc[u] = "idle"
    /\ \E r \in ListResponses, o1 \in TgOutcomes, o2 \in TgOutcomes :
          LET c0 == AwaitOutside(Fresh(u, "list_batches"),
                                 [op |-> "reply", text |-> Message("fetching", <<>>)],
                                 o1, "idle")
              c1 == LogGet(c0, BatchesUrl, r)
              bs == get_all_batches(<<r>>).ret
              c2 == IF bs = <<>>
                    THEN AwaitOutside(c1, [op |-> "reply",
                                           text |-> Message("no batches", <<>>)], o2, "idle")
                    ELSE AwaitOutside(c1, [op |-> "reply",
                                           text |-> Message("available", <<>>)], o2, "idle")
          IN  Apply(u, IF ~o1.ok THEN c0
                       ELSE IF o2.ok /\ bs # <<>> THEN [c2 EXCEPT !.shown = Keyboard(bs)]
                       ELSE c2)

\* the user presses a button of the keyboard: button_handler starts
ButtonPressed(u) ==
    /\ pc[u] = "idle"
    /\ \E i \in 1..Len(shown[u]) :
          Apply(u, [Fresh(u, "button_handler") EXCEPT !.pc = "answer",
                                                      !.data = shown[u][i].callback_data])

\* await query.answer()
Answer(u) ==
    /\ pc[u] = "answer"
    /\ \E o \in TgOutcomes : Apply(u, AwaitOutside(Cur(u), [op |-> "answer"], o, "dispatch"))

\* the first batch of the list, whatever its id
FindBatchAny(bs, id, i) == IF Len(bs) = 0 THEN NoneVal ELSE bs[1]

\* next((b for b in batches if b.get('batchId') == batch_id), None)
RECURSIVE FindBatch(_, _, _)
FindBatch(bs, id, i) ==
    IF i > Len(bs) THEN NoneVal
    ELSE IF Get(bs[i], "batchId", <<PyNone>>) = id THEN bs[i]
    ELSE FindBatch(bs, id, i + 1)

\* extract_and_send_batch up to its first awaited call
LookupBatch(c, id, r, o) ==
    LET c1 == LogGet([c EXCEPT !.batch_id = id], BatchesUrl, r)
        bs == get_all_batches(<<r>>).ret
        info == FindBatch(bs, id, 1)
        c2 == [c1 EXCEPT !.batches = bs, !.batch_info = info]
    IN  IF ~DictTruthy(info)
        THEN AwaitInTry(c2, EditEntry("not found", <<>>), o, "idle")
        ELSE AwaitInTry(c2, EditEntry("extracting", Get(info, "batchName", <<"Unknown">>)),
                        o, "details")

\* the id that button_handler passes on
SelectedId(d) == ReplaceBatch(d)

\* button_handler after query.answer()
Dispatch(u) ==
    /\ pc[u] = "dispatch"
    /\ \E r \in ListResponses, o \in TgOutcomes :
          Apply(u, IF data[u] = CancelData
                   THEN AwaitOutside(Cur(u), EditEntry("cancelled", <<>>), o, "idle")
                   ELSE IF StartsWithBatch(data[u])
                   THEN LookupBatch(Cur(u), SelectedId(data[u]), r, o)
                   ELSE [Cur(u) EXCEPT !.pc = "idle"])

\* batch_name.replace(' ', '_').replace('/', '-')[:50] + ".txt"
FileName(batch_name) ==
    Take([i \in 1..Len(batch_name) |->
             IF batch_name[i] = " " THEN "_"
             ELSE IF batch_name[i] = "/" THEN "-" ELSE batch_name[i]], FileNameLimit)
    \o <<".txt">>

\* every link gets a line and is counted, whatever its url
RECURSIVE RenderLinesAll(_, _, _)
RenderLinesAll(ls, i, acc) ==
    IF i > Len(ls) THEN acc
    ELSE RenderLinesAll(ls, i + 1,
                        [lines |-> Append(acc.lines, <<ls[i].topic, ls[i].title, ls[i].url>>),
                         valid_links |-> acc.valid_links + 1])

\* for link in links: if link["url"]: file_content += line; valid_links += 1
RECURSIVE RenderLines(_, _, _)
RenderLines(ls, i, acc) ==
    IF i > Len(ls) THEN acc
    ELSE IF StrTruthy(ls[i].url)
    THEN RenderLines(ls, i + 1,
                     [lines |-> Append(acc.lines, <<ls[i].topic, ls[i].title, ls[i].url>>),
                      valid_links |-> acc.valid_links + 1])
    ELSE RenderLines(ls, i + 1, acc)

\* len([l for l in links if l['type'] in kinds])
CountTypes(ls, kinds) == Cardinality({i \in 1..Len(ls) : ls[i].type \in kinds})

\* the file and the caption passed to reply_document
DocumentEntry(info, ls) ==
    LET batch_name == Get(info, "batchName", <<"Unknown">>)
        batch_image == Get(info, "batchThumb", "")
        body == RenderLines(ls, 1, [lines |-> <<>>, valid_links |-> 0])
    IN  [op |-> "document",
         filename |-> FileName(batch_name),
         header |-> <<batch_name, batch_image>>,
         lines |-> body.lines,
         caption |-> [name |-> batch_name, total |-> body.valid_links,
                      videos |-> CountTypes(ls, {"video"}),
                      pdfs |-> CountTypes(ls, {"pdf", "study_pdf"})]]

\* links kept in one list shared by all handler runs
SharedLinks(u, ret) ==
    IF \E v \in Users : v # u /\ links[v] # <<>>
    THEN links[CHOOSE v \in Users : v # u /\ links[v] # <<>>] \o ret
    ELSE ret

\* links = extract_links(details): a local of this handler run
LocalLinks(u, ret) == ret

\* extract_and_send_batch from get_batch_details to reply_document
FetchAndExtract(u) ==
    /\ pc[u] = "details"
    /\ \E r \in DetailResponses, o \in TgOutcomes :
          LET c == Cur(u)
              d == get_batch_details(<<r>>).ret
              c1 == LogGet([c EXCEPT !.details = d], ExtractUrl(c.batch_id), r)
              e == extract_links(d)
              c2 == [c1 EXCEPT !.links = LocalLinks(u, e.ret)]
          IN  Apply(u, IF ~DictTruthy(d)
                       THEN AwaitInTry(c1, EditEntry("failed", <<>>), o, "idle")
                       ELSE IF e.raised
                       THEN [c1 EXCEPT !.pc = "except", !.exc = e.text]
                       ELSE IF c2.links = <<>>
                       THEN AwaitInTry(c2, EditEntry("no links", <<>>), o, "idle")
                       ELSE AwaitInTry(c2, DocumentEntry(c2.batch_info, c2.links), o,
                                       "complete"))

\* await query.edit_message_text("Extraction complete! ...")
Complete(u) ==
    /\ pc[u] = "complete"
    /\ \E o \in TgOutcomes :
          Apply(u, AwaitInTry(Cur(u), EditEntry("complete", <<>>), o, "idle"))

\* except Exception as e: logger.error(...); await query.edit_message_text(str(e)[:100])
ExceptClause(u) ==
    /\ pc[u] = "except"
    /\ \E o \in TgOutcomes :
          Apply(u, AwaitOutside(Cur(u), EditEntry("error", Take(exc[u], ErrorTextLimit)),
                                o, "idle"))

\* an exception left the handler: the dispatcher calls error_handler, which
\* logs it, and goes on with the next update
ErrorHandler(u) ==
    /\ pc[u] = "raised"
    /\ Apply(u, [Cur(u) EXCEPT !.pc = "idle", !.trace = Append(@, [op |-> "log"])])

InitBot ==
    /\ fn = "none" /\ arg = <<>> /\ out = NotCalled
    /\ BotIdle

\* one chat
NextBot ==
    \/ ListBatches("u1")
    \/ ButtonPressed("u1")
    \/ Answer("u1")
    \/ Dispatch("u1")
    \/ FetchAndExtract("u1")
    \/ Complete("u1")
    \/ ExceptClause("u1")
    \/ ErrorHandler("u1")

SpecBot == InitBot /\ [][NextBot]_vars

\* several chats, their handlers interleaved at the awaited calls
NextConc ==
    \/ \E u \in Users : ListBatches(u)
    \/ \E u \in Users : ButtonPressed(u)
    \/ \E u \in Users : Answer(u)
    \/ \E u \in Users : Dispatch(u)
    \/ \E u \in Users : FetchAndExtract(u)
    \/ \E u \in Users : Complete(u)
    \/ \E u \in Users : ExceptClause(u)
    \/ \E u \in Users : ErrorHandler(u)

SpecConc == InitBot /\ [][NextConc]_vars

\* ------------------------------------------------------------------------
\* Properties of the handlers (SpecBot, SpecConc)

\* the current handler run of chat u is a button_handler run
ButtonRun(u) == trace[u] # <<>> /\ trace[u][1].handler = "button_handler"

\* ... and query.answer() is done and the code after it has run
Dispatched(u) == ButtonRun(u) /\ Len(trace[u]) >= 3 /\ trace[u][2].ok

IsGet(e) == e.op = "GET"
EditIdx(u, kind) ==
    {i \in 1..Len(trace[u]) : trace[u][i].op = "edit" /\ trace[u][i].text.msg = kind}
GetIdx(u, url) ==
    {i \in 1..Len(trace[u]) : trace[u][i].op = "GET" /\ trace[u][i].url = url}
DocIdx(u) == {i \in 1..Len(trace[u]) : trace[u][i].op = "document"}
AnyEditIdx(u) == {i \in 1..Len(trace[u]) : trace[u][i].op = "edit"}
AnyGetIdx(u) == {i \in 1..Len(trace[u]) : trace[u][i].op = "GET"}

\* the id a button was made for: its callback data without the "batch_" prefix
StripPrefix(d) == Tail(d)

HasUrl(link) == link.url # ""
ListedIds(bs) == {Get(bs[i], "batchId", <<PyNone>>) : i \in 1..Len(bs)}

\* C4: in every delivered file the link lines are the extracted records with
\* a non-empty url, in extraction order, and Total Links is their number; the
\* Videos and PDFs totals count all extracted records of the kind, so their
\* sum is the number of extracted records and is at least Total Links.
C4_FileAndCaption ==
    \A u \in Users : \A i \in DocIdx(u) :
        LET e == trace[u][i]
            withUrl == SelectSeq(links[u], HasUrl)
        IN  /\ links[u] = extract_links(details[u]).ret
            /\ e.lines = [k \in 1..Len(withUrl) |->
                             <<withUrl[k].topic, withUrl[k].title, withUrl[k].url>>]
            /\ e.caption.total = Len(e.lines)
            /\ e.caption.videos = CountOf(links[u], "video")
            /\ e.caption.pdfs = CountOf(links[u], "pdf") + CountOf(links[u], "study_pdf")
            /\ e.caption.videos + e.caption.pdfs = Len(links[u])
            /\ e.caption.videos + e.caption.pdfs >= e.caption.total

\* a delivered file with a video line, with fewer lines than records
C4_Witness ==
    \E i \in DocIdx("u1") :
        /\ trace["u1"][i].ok
        /\ details["u1"] = DocRich
        /\ trace["u1"][i].caption.total = 4
        /\ trace["u1"][i].caption.videos = 1
        /\ trace["u1"][i].caption.pdfs = 5
        /\ trace["u1"][i].lines[1] = <<"T1", "v1", "B">>

\* C6: a cancel input performs no HTTP call and delivers no file, only the
\* "cancelled" message; a selection whose id is not in the batch list reports
\* "not found", performs no batch-detail fetch and delivers no file.
C6_CancelAndUnknownId ==
    \A u \in Users : Dispatched(u) =>
        /\ data[u] = CancelData =>
              /\ AnyGetIdx(u) = {} /\ DocIdx(u) = {}
              /\ AnyEditIdx(u) = EditIdx(u, "cancelled")
        /\ (StartsWithBatch(data[u]) /\ StripPrefix(data[u]) \notin ListedIds(batches[u])) =>
              /\ EditIdx(u, "not found") # {}
              /\ GetIdx(u, ExtractUrl(batch_id[u])) = {} /\ DocIdx(u) = {}

\* C7: when the batch-detail fetch succeeds and flattening the detail yields
\* no record, the user is shown "no links found" and no file is delivered.
C7_NoLinksFound ==
    \A u \in Users : \A i \in GetIdx(u, ExtractUrl(batch_id[u])) :
        (/\ ButtonRun(u)
         /\ trace[u][i].ok
         /\ ~extract_links(trace[u][i].body).raised
         /\ extract_links(trace[u][i].body).ret = <<>>) =>
            /\ i < Len(trace[u]) => i + 1 \in EditIdx(u, "no links")
            /\ DocIdx(u) = {}

\* the except clause of extract_and_send_batch has run
ExceptRan(u) == EditIdx(u, "error") # {}

\* flattening the fetched detail raised, or the upload of the file did
FlattenOrUploadRaised(u) ==
    \/ \E i \in DocIdx(u) : ~trace[u][i].ok
    \/ \E i \in GetIdx(u, ExtractUrl(batch_id[u])) :
          trace[u][i].ok /\ DictTruthy(trace[u][i].body)
              /\ extract_links(trace[u][i].body).raised

\* C8 (as claimed): an exception raised while handling a batch selection
\* (flattening a malformed detail, uploading the file) is caught in
\* extract_and_send_batch and no exception leaves the handler.
C8_NothingPropagates ==
    \A u \in Users : (ButtonRun(u) /\ FlattenOrUploadRaised(u)) => pc[u] # "raised"

InTryEntry(e) ==
    \/ e.op = "document"
    \/ e.op = "edit" /\ e.text.msg \in {"not found", "extracting", "failed", "no links",
                                         "complete"}

\* C8 (amended): an exception raised in the try block is caught there and
\* the next thing the handler does is to send an error message with at most
\* the first 100 characters of its text; when that message is sent the
\* handler returns; an exception leaves the handler only from a call outside
\* the try block (query.answer(), the "cancelled" edit, the error message
\* itself), error_handler then logs it and the chat is served again.
C8_CaughtAndReported ==
    \A u \in Users : ButtonRun(u) =>
        /\ \A i \in 1..Len(trace[u]) :
              (InTryEntry(trace[u][i]) /\ ~trace[u][i].ok) =>
                  /\ i = Len(trace[u]) => pc[u] = "except" /\ exc[u] = TelegramErrorText
                  /\ i < Len(trace[u]) =>
                        /\ i + 1 \in EditIdx(u, "error")
                        /\ trace[u][i + 1].text.detail = Take(TelegramErrorText, ErrorTextLimit)
        /\ \A i \in EditIdx(u, "error") :
              /\ Len(trace[u][i].text.detail) <= ErrorTextLimit
              /\ trace[u][i].ok => (i = Len(trace[u]) /\ pc[u] = "idle"
                                    /\ trace[u][i].text.detail = Take(exc[u], ErrorTextLimit))
              /\ ~trace[u][i].ok => (pc[u] = "raised" \/ trace[u][Len(trace[u])].op = "log")
        /\ pc[u] = "except" =>
              \/ InTryEntry(trace[u][Len(trace[u])]) /\ ~trace[u][Len(trace[u])].ok
              \/ IsGet(trace[u][Len(trace[u])]) /\ exc[u] = AttributeErrorText
        /\ pc[u] = "raised" =>
              /\ ~trace[u][Len(trace[u])].ok
              /\ ~InTryEntry(trace[u][Len(trace[u])])
        /\ trace[u][Len(trace[u])].op = "log" => pc[u] = "idle"

\* the upload failed with a text of more than 100 characters, the error
\* message showing its first 100 characters was sent, the handler returned
C8_Witness ==
    /\ pc["u1"] = "idle" /\ ButtonRun("u1")
    /\ Len(trace["u1"]) = 7
    /\ trace["u1"][6].op = "document" /\ ~trace["u1"][6].ok
    /\ Len(exc["u1"]) > ErrorTextLimit
    /\ 7 \in EditIdx("u1", "error") /\ trace["u1"][7].ok
    /\ Len(trace["u1"][7].text.detail) = ErrorTextLimit

\* what a handler run received: the update, the bodies and the outcomes of
\* its GETs, the outcomes of its Telegram calls
Received(e) ==
    IF e.op = "update" THEN e
    ELSE IF e.op = "GET" THEN [op |-> "GET", ok |-> e.ok, body |-> e.body]
    ELSE IF e.op = "log" THEN e
    ELSE [op |-> "call", ok |-> e.ok]
Inputs(u) == <<data[u], [i \in 1..Len(trace[u]) |-> Received(trace[u][i])]>>

\* C9: what a handler run produces (records, file, caption, messages)
\* depends only on its own selection and on the responses to its own calls:
\* two runs in different chats that received the same are in the same state,
\* whatever the interleaving.
C9_RequestsIndependent ==
    \A u, v \in Users : (u # v /\ Inputs(u) = Inputs(v)) =>
        /\ pc[u] = pc[v]
        /\ batch_id[u] = batch_id[v] /\ batches[u] = batches[v]
        /\ batch_info[u] = batch_info[v] /\ details[u] = details[v]
        /\ links[u] = links[v]
        /\ exc[u] = exc[v]
        /\ trace[u] = trace[v]

\* two chats that received the same, one already done, the other's file just sent
C9_Witness ==
    /\ Inputs("u1") = Inputs("u2")
    /\ pc["u1"] = "complete" /\ pc["u2"] = "complete"
    /\ details["u1"] = DocRich
    /\ Len(links["u2"]) = 6
    /\ DocIdx("u1") # {}

GetUrls(u) ==
    LET gets == SelectSeq(trace[u], IsGet)
    IN  [i \in 1..Len(gets) |-> gets[i].url]

\* C10: one batch selection makes a fresh batch-list GET, then, only if the
\* selected id is in the list just fetched, one batch-detail GET, then, only
\* if the detail is non-empty and yields a record, one file delivery; "Batch
\* not found" is decided by the list fetched at selection time alone, so it
\* is reported too when that fetch fails.
C10_StepOrder ==
    \A u \in Users : (Dispatched(u) /\ StartsWithBatch(data[u])) =>
        /\ GetUrls(u) \in {<<BatchesUrl>>, <<BatchesUrl, ExtractUrl(batch_id[u])>>}
        /\ LET g == trace[u][CHOOSE i \in GetIdx(u, BatchesUrl) : TRUE]
           IN  /\ batches[u] = IF g.ok THEN g.body ELSE <<>>
               /\ ~g.ok => EditIdx(u, "not found") # {}
        /\ Len(GetUrls(u)) = 2 => batch_id[u] \in ListedIds(batches[u])
        /\ EditIdx(u, "not found") # {} <=> batch_id[u] \notin ListedIds(batches[u])
        /\ Cardinality(DocIdx(u)) <= 1
        /\ \A i \in DocIdx(u) :
              /\ Len(GetUrls(u)) = 2
              /\ \A j \in AnyGetIdx(u) : j < i
              /\ DictTruthy(details[u]) /\ links[u] # <<>>

\* the batch was on the keyboard, the fetch at selection time failed:
\* "Batch not found" and no batch-detail GET
C10_Witness ==
    /\ Dispatched("u1")
    /\ data["u1"] = CallbackData(<<"1">>)
    /\ \E i \in 1..Len(shown["u1"]) : shown["u1"][i].callback_data = data["u1"]
    /\ \E i \in GetIdx("u1", BatchesUrl) : ~trace["u1"][i].ok
    /\ EditIdx("u1", "not found") # {}
    /\ GetUrls("u1") = <<BatchesUrl>>

====
